---- MODULE Spec2Model ----
\* Model of the Art Portfolio API (src/server.js): the JSON document store
\* (ArtworkService), the uploads directory, the validation middleware and the
\* POST / PUT / DELETE / GET /artworks handlers.  Every await on file I/O is one
\* step of a request, so requests interleave exactly where the event loop lets
\* them.
EXTENDS Integers, Sequences, FiniteSets, TLC

\* ------------------------------------------------------------------ bounds
\* requests accepted in one behaviour
MaxStarted == 3
\* requests in flight at the same time
MaxInFlight == 2
\* length up to which every document is listed
MaxListLen == 3

Slots == 1..MaxInFlight

\* ------------------------------------------------------- JavaScript values
\* A JavaScript string is a sequence of one-character strings; a value is
\* undefined, a string, a number or NaN.
Undef == [t |-> "undef", s |-> <<>>, n |-> 0]
NaN == [t |-> "nan", s |-> <<>>, n |-> 0]
Str(s) == [t |-> "str", s |-> s, n |-> 0]
Num(n) == [t |-> "num", s |-> <<>>, n |-> n]

Whitespace == {" "}
Digit == {"0", "1", "2", "3", "4", "5", "6", "7", "8", "9"}
DigitChars == <<"0", "1", "2", "3", "4", "5", "6", "7", "8", "9">>
DigitVal(c) == CHOOSE d \in 0..9 : DigitChars[d + 1] = c

RECURSIVE TrimStart(_)
TrimStart(s) ==
  IF s # <<>> /\ Head(s) \in Whitespace THEN TrimStart(Tail(s)) ELSE s

RECURSIVE TrimEnd(_)
TrimEnd(s) ==
  IF s # <<>> /\ s[Len(s)] \in Whitespace
  THEN TrimEnd(SubSeq(s, 1, Len(s) - 1))
  ELSE s

\* String.prototype.trim
TrimNone(s) == s
Trim(s) == TrimEnd(TrimStart(s))

\* the value of the longest prefix of decimal digits of s
RECURSIVE DigitsValue(_, _)
DigitsValue(s, acc) ==
  IF s # <<>> /\ Head(s) \in Digit
  THEN DigitsValue(Tail(s), acc * 10 + DigitVal(Head(s)))
  ELSE acc

\* String(n) for an integer n
RECURSIVE NatToStr(_)
NatToStr(n) ==
  IF n < 10 THEN <<DigitChars[n + 1]>>
  ELSE NatToStr(n \div 10) \o <<DigitChars[(n % 10) + 1]>>
NumToStr(n) == IF n < 0 THEN <<"-">> \o NatToStr(-n) ELSE NatToStr(n)

\* parseInt of a string: leading whitespace, an optional sign, then digits
ParseIntStr(s) ==
  LET t == TrimStart(s)
      neg == t # <<>> /\ Head(t) = "-"
      u == IF t # <<>> /\ Head(t) \in {"-", "+"} THEN Tail(t) ELSE t
  IN IF u = <<>> \/ Head(u) \notin Digit
     THEN NaN
     ELSE Num(IF neg THEN -DigitsValue(u, 0) ELSE DigitsValue(u, 0))

\* parseInt(v): the argument is converted to a string first
ParseInt(v) ==
  CASE v.t = "str" -> ParseIntStr(v.s)
    [] v.t = "num" -> ParseIntStr(NumToStr(v.n))
    [] OTHER -> NaN

\* JavaScript truthiness / falsiness of a value
Falsy(v) ==
  \/ v.t \in {"undef", "nan"}
  \/ v.t = "str" /\ v.s = <<>>
  \/ v.t = "num" /\ v.n = 0

\* parseInt(x) || d
OrDefault(v, d) == IF Falsy(v) THEN d ELSE v.n

\* [0, 1, "0", "1"].includes(v)
StatusDomain == {Num(0), Num(1), Str(<<"0">>), Str(<<"1">>)}
StatusIncludes(v) == v \in StatusDomain

\* a == b for a number and a string or two values of one type
LooseEq(a, b) ==
  CASE a.t = b.t -> a = b
    [] a.t = "num" /\ b.t = "str" -> ParseIntStr(b.s) = a
    [] a.t = "str" /\ b.t = "num" -> ParseIntStr(a.s) = b
    [] OTHER -> FALSE

\* isValidDate on the date strings the model submits: a four-digit year
\* parses, a blank or a letter does not
isValidDate(v) ==
  /\ v.t = "str"
  /\ Len(v.s) = 4
  /\ \A i \in 1..4 : v.s[i] \in Digit

\* ----------------------------------------------------------- request body
TextFields == {"title", "description", "category", "origin", "artist"}

\* !x || x.trim().length === 0
BlankText(v) == Falsy(v) \/ Len(Trim(v.s)) = 0

\* validateArtworkData: the set of error messages
ValidationErrors(body) ==
  {f \in TextFields : BlankText(body[f])}
    \cup (IF Falsy(body.createdDate) \/ ~isValidDate(body.createdDate)
          THEN {"createdDate"} ELSE {})
    \cup (IF body.status.t = "undef" \/ ~StatusIncludes(body.status)
          THEN {"status"} ELSE {})

IsValid(body) == ValidationErrors(body) = {}

TextA == Str(<<"a">>)
Year == Str(<<"2", "0", "2", "4">>)
BaseBody ==
  [title |-> TextA, description |-> TextA, category |-> TextA,
   origin |-> TextA, artist |-> TextA, createdDate |-> Year,
   status |-> Str(<<"1">>)]

\* multipart bodies that pass validation: plain, and one with padded text
\* and status "0"
ValidBodies ==
  { BaseBody,
    [BaseBody EXCEPT !.title = Str(<<" ", "a", " ">>),
                     !.status = Str(<<"0">>)] }

\* bodies that fail validation, one rule each
InvalidBodies ==
  { [BaseBody EXCEPT !.title = Undef],
    [BaseBody EXCEPT !.description = Str(<<" ">>)],
    [BaseBody EXCEPT !.category = Str(<<>>)],
    [BaseBody EXCEPT !.origin = Undef],
    [BaseBody EXCEPT !.artist = Str(<<" ", " ">>)],
    [BaseBody EXCEPT !.createdDate = Str(<<"x">>)],
    [BaseBody EXCEPT !.createdDate = Undef],
    [BaseBody EXCEPT !.status = Str(<<"2">>)],
    [BaseBody EXCEPT !.status = Undef] }

\* the bodies sent with PUT: a JSON body with padded text and a numeric
\* status, and one that fails validation
ValidPutBodies ==
  { [BaseBody EXCEPT !.artist = Str(<<"b", " ">>), !.status = Num(1)] }
PutBodies ==
  { [BaseBody EXCEPT !.artist = Str(<<"b", " ">>), !.status = Num(1)],
    [BaseBody EXCEPT !.status = Num(2)] }

Bodies == ValidBodies \cup InvalidBodies
NoBody == [title |-> Undef, description |-> Undef, category |-> Undef,
           origin |-> Undef, artist |-> Undef, createdDate |-> Undef,
           status |-> Undef]

\* --------------------------------------------------------------- records
\* `${req.protocol}://${req.get("host")}/uploads/${filename}`
HostPrefix == "http://host/uploads/"
ImageUrl(fname) == <<HostPrefix, fname>>
\* `/uploads/${req.file.filename}`
LocalUrl(fname) == <<"/uploads/", fname>>
NoUrl == <<"", 0>>
\* path.basename(imageUrl)
basename(url) == url[2]

\* the absent record: undefined from find, null from update and delete
NoRecord ==
  [id |-> 0, title |-> Undef, description |-> Undef, category |-> Undef,
   origin |-> Undef, artist |-> Undef, createdDate |-> Undef,
   status |-> Undef, image |-> NoUrl, createdAt |-> 0, updatedAt |-> 0]

\* the artworkData object the POST and PUT handlers build
ArtworkData(body, imageUrl) ==
  [title |-> Str(Trim(body.title.s)),
   description |-> Str(Trim(body.description.s)),
   category |-> Str(Trim(body.category.s)),
   origin |-> Str(Trim(body.origin.s)),
   artist |-> Str(Trim(body.artist.s)),
   createdDate |-> body.createdDate,
   status |-> ParseInt(body.status),
   image |-> imageUrl]

\* { id: uuidv4(), ...artworkData, createdAt, updatedAt }
NewArtwork(id, data, time) ==
  [id |-> id, title |-> data.title, description |-> data.description,
   category |-> data.category, origin |-> data.origin,
   artist |-> data.artist, createdDate |-> data.createdDate,
   status |-> data.status, image |-> data.image,
   createdAt |-> time, updatedAt |-> time]

\* { ...data[index], ...artworkData, updatedAt }
UpdatedArtwork(old, data, time) ==
  [id |-> old.id, title |-> data.title, description |-> data.description,
   category |-> data.category, origin |-> data.origin,
   artist |-> data.artist, createdDate |-> data.createdDate,
   status |-> data.status, image |-> data.image,
   createdAt |-> old.createdAt, updatedAt |-> time]

Ids(doc) == {doc[i].id : i \in 1..Len(doc)}

\* data.findIndex((item) => item.id === id), 0 when there is none
findIndex(doc, id) ==
  IF id \in Ids(doc)
  THEN CHOOSE i \in 1..Len(doc) :
         doc[i].id = id /\ \A j \in 1..(i - 1) : doc[j].id # id
  ELSE 0

\* data.find((item) => item.id === id)
find(doc, id) ==
  IF findIndex(doc, id) = 0 THEN NoRecord ELSE doc[findIndex(doc, id)]

\* data.splice(index, 1)
spliceNothing(doc, index) == doc
splice(doc, index) ==
  SubSeq(doc, 1, index - 1) \o SubSeq(doc, index + 1, Len(doc))

\* fs.unlink of path.join(UPLOADS_DIR, path.basename(imageUrl)); a missing
\* file is caught and logged
UnlinkNothing(dir, imageUrl) == dir
deleteOldImage(dir, imageUrl) ==
  IF imageUrl = NoUrl THEN dir ELSE dir \ {basename(imageUrl)}

\* ------------------------------------------------------------------ state
VARIABLES
  file,      \* data.json: the sequence of records (absent file = empty)
  uploads,   \* the filenames present in UPLOADS_DIR
  req,       \* the requests: handler position, locals and response
  started,   \* requests accepted so far
  nextId,    \* the next identifier uuidv4() returns
  nextFile,  \* the next filename multer's storage generates
  ver,       \* number of writes of data.json so far; also the clock that
             \* new Date() reads
  raced,     \* history: some write replaced a document newer than the
             \* writer's first read of it
  made,      \* history: creations not yet followed by an update or delete
  deleted,   \* history: records whose DELETE answered 200
  list       \* the query and response of the last GET /artworks

vars == <<file, uploads, req, started, nextId, nextFile, ver, raced, made,
          deleted, list>>

IdleReq ==
  [op |-> "none", pc |-> "idle", id |-> 0, body |-> NoBody,
   hasFile |-> FALSE, fname |-> 0, existing |-> NoRecord, data |-> <<>>,
   item |-> NoRecord, status |-> 0, resp |-> NoRecord,
   valid |-> FALSE, found |-> FALSE, wrote |-> FALSE, unlinked |-> FALSE,
   lookVer |-> 0, readVer |-> 0, writeVer |-> 0, prev |-> NoRecord,
   afterDel |-> FALSE]

NoList ==
  [page |-> Undef, limit |-> Undef, status |-> Undef, data |-> <<>>,
   outPage |-> 0, outLimit |-> 0, total |-> 0, pages |-> 0]

Init ==
  /\ file = <<>>
  /\ uploads = {}
  /\ req = [r \in Slots |-> IdleReq]
  /\ started = 0
  /\ nextId = 1
  /\ nextFile = 1
  /\ ver = 0
  /\ raced = FALSE
  /\ made = {}
  /\ deleted = {}
  /\ list = NoList

InFlight(r) == req[r].pc \notin {"idle", "done"}
Quiescent == \A r \in Slots : ~InFlight(r)

\* a new request takes the first connection that has no request in flight
Accepts(r) ==
  /\ started < MaxStarted
  /\ ~InFlight(r)
  /\ \A s \in Slots : s < r => InFlight(s)

\* the identifiers a client can name: stored, deleted, or unknown (0)
Targets == Ids(file) \cup {d.id : d \in deleted} \cup {0}

\* res.status(code).json(record): the handler returns, its locals are gone
Respond(q, code, record) ==
  [q EXCEPT !.pc = "done", !.status = code, !.resp = record,
            !.body = NoBody, !.existing = NoRecord, !.data = <<>>,
            !.item = NoRecord]

\* upload.single("image"): multer stores the file before validation runs
Stored(withFile) == IF withFile THEN uploads \cup {nextFile} ELSE uploads

Accepted(op, id, body, withFile) ==
  [IdleReq EXCEPT !.op = op, !.id = id, !.body = body,
                  !.hasFile = withFile,
                  !.fname = IF withFile THEN nextFile ELSE 0,
                  !.valid = IsValid(body),
                  !.afterDel = id \in {d.id : d \in deleted}]

\* POST /artworks: upload, validateArtworkData, then the handler up to the
\* read of ArtworkService.create
PostStart(q) ==
  IF ~IsValid(q.body) THEN Respond(q, 400, NoRecord)
  ELSE IF ~q.hasFile THEN Respond(q, 400, NoRecord)
  ELSE [q EXCEPT !.pc = "create_read"]

\* the requests sent to POST: every body with an image, one without
PostInputs ==
  {[body |-> b, withFile |-> TRUE] : b \in Bodies}
    \cup {[body |-> BaseBody, withFile |-> FALSE]}

BeginPost(r) ==
  /\ Accepts(r)
  /\ \E in \in PostInputs :
       /\ req' = [req EXCEPT ![r] =
            PostStart(Accepted("post", 0, in.body, in.withFile))]
       /\ uploads' = Stored(in.withFile)
       /\ nextFile' = IF in.withFile THEN nextFile + 1 ELSE nextFile
  /\ started' = started + 1
  /\ UNCHANGED <<file, nextId, ver, raced, made, deleted, list>>

\* ArtworkService.create: readData resolves, the new record is built
CreateRead(r) ==
  /\ req[r].pc = "create_read"
  /\ req' = [req EXCEPT ![r] =
       [req[r] EXCEPT
          !.pc = "create_write", !.data = file, !.id = nextId,
          !.lookVer = ver, !.readVer = ver,
          !.item = NewArtwork(nextId,
                     ArtworkData(req[r].body, ImageUrl(req[r].fname)),
                     ver)]]
  /\ nextId' = nextId + 1
  /\ UNCHANGED <<file, uploads, started, nextFile, ver, raced, made, deleted,
                 list>>

\* data.push(newArtwork)
pushOntoCurrent(data, item) == Append(file, item)
push(data, item) == Append(data, item)

\* ArtworkService.create: writeData resolves, the handler answers 201
CreateWrite(r) ==
  /\ req[r].pc = "create_write"
  /\ file' = push(req[r].data, req[r].item)
  /\ ver' = ver + 1
  /\ raced' = (raced \/ req[r].lookVer # ver)
  /\ made' = made \cup {[id |-> req[r].id, body |-> req[r].body,
                         fname |-> req[r].fname]}
  /\ req' = [req EXCEPT ![r] =
       Respond([req[r] EXCEPT !.wrote = TRUE, !.writeVer = ver + 1],
               201, req[r].item)]
  /\ UNCHANGED <<uploads, started, nextId, nextFile, deleted, list>>

\* PUT /artworks/:id: upload, validateArtworkData, then the handler up to
\* the read of ArtworkService.findById
PutStart(q) ==
  IF ~IsValid(q.body) THEN Respond(q, 400, NoRecord)
  ELSE [q EXCEPT !.pc = "find"]

\* the requests sent to PUT: a valid body with or without an image, an
\* invalid one with an image
PutInputs ==
  {[body |-> b, withFile |-> TRUE] : b \in PutBodies}
    \cup {[body |-> b, withFile |-> FALSE] : b \in PutBodies \cap ValidPutBodies}

BeginPut(r) ==
  /\ Accepts(r)
  /\ \E id \in Targets, in \in PutInputs :
       /\ req' = [req EXCEPT ![r] =
            PutStart(Accepted("put", id, in.body, in.withFile))]
       /\ uploads' = Stored(in.withFile)
       /\ nextFile' = IF in.withFile THEN nextFile + 1 ELSE nextFile
  /\ started' = started + 1
  /\ UNCHANGED <<file, nextId, ver, raced, made, deleted, list>>

\* where the PUT handler goes once findById has resolved
AfterFindNoCleanup(q, existing) ==
  IF existing = NoRecord THEN "respond404"
  ELSE IF q.hasFile THEN "unlink_old" ELSE "update_read"
AfterFindKeepOld(q, existing) ==
  IF existing = NoRecord
  THEN IF q.hasFile THEN "cleanup" ELSE "respond404"
  ELSE "update_read"
AfterFindUnlinkAlways(q, existing) ==
  IF existing = NoRecord
  THEN IF q.hasFile THEN "cleanup" ELSE "respond404"
  ELSE "unlink_old"
AfterFind(q, existing) ==
  IF existing = NoRecord
  THEN IF q.hasFile THEN "cleanup" ELSE "respond404"
  ELSE IF q.hasFile THEN "unlink_old" ELSE "update_read"

\* ArtworkService.findById resolves in the PUT handler
FindById(r) ==
  /\ req[r].pc = "find"
  /\ LET existing == find(file, req[r].id)
         q == [req[r] EXCEPT !.existing = existing, !.lookVer = ver,
                             !.found = (existing # NoRecord)]
         to == AfterFind(q, existing)
     IN req' = [req EXCEPT ![r] =
          IF to = "respond404" THEN Respond(q, 404, NoRecord)
          ELSE [q EXCEPT !.pc = to]]
  /\ UNCHANGED <<file, uploads, started, nextId, nextFile, ver, raced, made,
                 deleted, list>>

\* PUT, record not found: the uploaded file is removed, then 404
CleanupUpload(r) ==
  /\ req[r].pc = "cleanup"
  /\ uploads' = deleteOldImage(uploads, LocalUrl(req[r].fname))
  /\ req' = [req EXCEPT ![r] =
       Respond([req[r] EXCEPT !.unlinked = (uploads' # uploads)],
               404, NoRecord)]
  /\ UNCHANGED <<file, started, nextId, nextFile, ver, raced, made, deleted,
                 list>>

\* PUT with a new file: deleteOldImage(existingArtwork.image) resolves and
\* ArtworkService.update starts its read
DeleteOldImage(r) ==
  /\ req[r].pc = "unlink_old"
  /\ uploads' = deleteOldImage(uploads, req[r].existing.image)
  /\ req' = [req EXCEPT ![r] =
       [req[r] EXCEPT !.pc = "update_read",
                      !.unlinked = (uploads' # uploads)]]
  /\ UNCHANGED <<file, started, nextId, nextFile, ver, raced, made, deleted,
                 list>>

\* the image the PUT handler stores: the new upload, else the looked-up one
imageUrlOf(q) ==
  IF q.hasFile THEN ImageUrl(q.fname) ELSE q.existing.image

\* ArtworkService.update: readData resolves; a missing record returns null,
\* which the handler sends with res.json
UpdateRead(r) ==
  /\ req[r].pc = "update_read"
  /\ LET index == findIndex(file, req[r].id)
         q == [req[r] EXCEPT !.data = file, !.readVer = ver]
     IN req' = [req EXCEPT ![r] =
          IF index = 0 THEN Respond(q, 200, NoRecord)
          ELSE [q EXCEPT
                  !.pc = "update_write", !.prev = file[index],
                  !.item = UpdatedArtwork(file[index],
                             ArtworkData(q.body, imageUrlOf(q)), ver)]]
  /\ UNCHANGED <<file, uploads, started, nextId, nextFile, ver, raced, made,
                 deleted, list>>

\* data[index] = updatedArtwork
replace(data, id, item) == [data EXCEPT ![findIndex(data, id)] = item]

\* ArtworkService.update: writeData resolves, the handler answers
UpdateWrite(r) ==
  /\ req[r].pc = "update_write"
  /\ file' = replace(req[r].data, req[r].id, req[r].item)
  /\ ver' = ver + 1
  /\ raced' = (raced \/ req[r].lookVer # ver)
  /\ made' = {m \in made : m.id # req[r].id}
  /\ req' = [req EXCEPT ![r] =
       Respond([req[r] EXCEPT !.wrote = TRUE, !.writeVer = ver + 1],
               200, req[r].item)]
  /\ UNCHANGED <<uploads, started, nextId, nextFile, deleted, list>>

\* DELETE /artworks/:id: the handler up to the read of ArtworkService.delete
BeginDelete(r) ==
  /\ Accepts(r)
  /\ \E id \in Targets :
       req' = [req EXCEPT ![r] =
         [Accepted("delete", id, NoBody, FALSE) EXCEPT !.pc = "delete_read"]]
  /\ started' = started + 1
  /\ UNCHANGED <<file, uploads, nextId, nextFile, ver, raced, made, deleted,
                 list>>

\* ArtworkService.delete: readData resolves; a missing record returns null
\* and the handler answers 404
DeleteRead(r) ==
  /\ req[r].pc = "delete_read"
  /\ LET index == findIndex(file, req[r].id)
         q == [req[r] EXCEPT !.data = file, !.lookVer = ver, !.readVer = ver,
                             !.found = (index # 0)]
     IN req' = [req EXCEPT ![r] =
          IF index = 0 THEN Respond(q, 404, NoRecord)
          ELSE [q EXCEPT !.pc = "delete_write", !.item = file[index],
                         !.prev = file[index]]]
  /\ UNCHANGED <<file, uploads, started, nextId, nextFile, ver, raced, made,
                 deleted, list>>

\* ArtworkService.delete: writeData resolves with the record spliced out
DeleteWrite(r) ==
  /\ req[r].pc = "delete_write"
  /\ file' = splice(req[r].data, findIndex(req[r].data, req[r].id))
  /\ ver' = ver + 1
  /\ raced' = (raced \/ req[r].lookVer # ver)
  /\ made' = {m \in made : m.id # req[r].id}
  /\ req' = [req EXCEPT ![r] =
       [req[r] EXCEPT !.pc = "delete_unlink", !.wrote = TRUE,
                      !.writeVer = ver + 1, !.data = <<>>]]
  /\ UNCHANGED <<uploads, started, nextId, nextFile, deleted, list>>

\* DELETE: deleteOldImage(deletedArtwork.image) resolves, the handler
\* answers with the deleted record
DeleteUnlink(r) ==
  /\ req[r].pc = "delete_unlink"
  /\ uploads' = deleteOldImage(uploads, req[r].item.image)
  /\ deleted' = deleted \cup {[id |-> req[r].id, image |-> req[r].item.image]}
  /\ req' = [req EXCEPT ![r] =
       Respond([req[r] EXCEPT !.unlinked = (uploads' # uploads)],
               200, req[r].item)]
  /\ UNCHANGED <<file, started, nextId, nextFile, ver, raced, made, list>>

Next ==
  \E r \in Slots :
    \/ BeginPost(r)
    \/ CreateRead(r)
    \/ CreateWrite(r)
    \/ BeginPut(r)
    \/ FindById(r)
    \/ CleanupUpload(r)
    \/ DeleteOldImage(r)
    \/ UpdateRead(r)
    \/ UpdateWrite(r)
    \/ BeginDelete(r)
    \/ DeleteRead(r)
    \/ DeleteWrite(r)
    \/ DeleteUnlink(r)

Spec == Init /\ [][Next]_vars

\* ----------------------------------------------------------- GET /artworks
Max(a, b) == IF a > b THEN a ELSE b
Min(a, b) == IF a < b THEN a ELSE b

\* Array.prototype.slice(start, end): negative indices count from the end
sliceFromStart(doc, start, end) == SubSeq(doc, 1, Min(end - start, Len(doc)))
slice(doc, start, end) ==
  LET from == IF start < 0 THEN Max(Len(doc) + start, 0)
              ELSE Min(start, Len(doc))
      to == IF end < 0 THEN Max(Len(doc) + end, 0) ELSE Min(end, Len(doc))
  IN SubSeq(doc, from + 1, to)

\* Array.prototype.filter
RECURSIVE filter(_, _)
filter(doc, statusFilter) ==
  IF doc = <<>> THEN <<>>
  ELSE IF LooseEq(Head(doc).status, statusFilter)
       THEN <<Head(doc)>> \o filter(Tail(doc), statusFilter)
       ELSE filter(Tail(doc), statusFilter)

\* Math.ceil(a / b) for b # 0
ceil(a, b) == IF b > 0 THEN -((-a) \div b) ELSE -(a \div (-b))

\* the GET /artworks handler on the document it read
ListArtworks(doc, q) ==
  LET page == OrDefault(ParseInt(q.page), 1)
      limit == OrDefault(ParseInt(q.limit), 10)
      skip == (page - 1) * limit
      allArtworks ==
        IF q.status # Undef /\ StatusIncludes(q.status)
        THEN filter(doc, q.status)
        ELSE doc
      total == Len(allArtworks)
  IN [page |-> q.page, limit |-> q.limit, status |-> q.status,
      data |-> slice(allArtworks, skip, skip + limit),
      outPage |-> page, outLimit |-> limit, total |-> total,
      pages |-> ceil(total, limit)]

OneChar(str) == Str(<<str>>)
PageInputs ==
  {Undef, OneChar("1"), OneChar("2"), OneChar("3"), OneChar("0"),
   Str(<<"-", "1">>), Str(<<"x">>)}
LimitInputs ==
  {Undef, OneChar("5"), OneChar("2"), OneChar("1"), OneChar("0"),
   Str(<<"-", "2">>)}
StatusInputs == {Undef, OneChar("0"), OneChar("1"), OneChar("2")}

GetArtworks ==
  /\ \E page \in PageInputs, limit \in LimitInputs, status \in StatusInputs :
       list' = ListArtworks(file, [page |-> page, limit |-> limit,
                                   status |-> status])
  /\ UNCHANGED <<file, uploads, req, started, nextId, nextFile, ver, raced,
                 made, deleted>>

\* the document after n creations, the i-th with status statuses[i]
StoredDoc(statuses) ==
  [i \in 1..Len(statuses) |->
     NewArtwork(i, ArtworkData([BaseBody EXCEPT !.status = statuses[i]],
                               ImageUrl(i)), i)]

ListLens == 0..MaxListLen
ListStatuses ==
  UNION {[1..n -> {OneChar("0"), OneChar("1")}] : n \in ListLens}
    \cup {[i \in 1..12 |-> OneChar("1")],
          [i \in 1..12 |-> IF i % 2 = 0 THEN OneChar("0") ELSE OneChar("1")],
          [i \in 1..12 |-> IF i % 3 = 0 THEN OneChar("1") ELSE OneChar("0")]}

InitList ==
  /\ \E statuses \in ListStatuses :
       /\ file = StoredDoc(statuses)
       /\ uploads = 1..Len(statuses)
       /\ started = Len(statuses)
       /\ nextId = Len(statuses) + 1
       /\ nextFile = Len(statuses) + 1
       /\ ver = Len(statuses)
  /\ req = [r \in Slots |-> IdleReq]
  /\ raced = FALSE
  /\ made = {}
  /\ deleted = {}
  /\ list = NoList

NextList == GetArtworks

ListSpec == InitList /\ [][NextList]_vars

\* ================================================================= claims
Done(r) == req[r].pc = "done"
BodyFields == TextFields \cup {"createdDate", "status"}

\* C1 (as claimed): a POST that carries an image and fails validation answers
\* 400, writes no record and leaves no file of its own in the uploads
\* directory.
C1_NoOrphanAfterInvalidCreate ==
  \A r \in Slots :
    (req[r].op = "post" /\ req[r].hasFile /\ ~req[r].valid /\ Done(r))
      => /\ req[r].status = 400
         /\ ~req[r].wrote
         /\ req[r].fname \notin uploads

\* C2 (as claimed): a record created from a valid body is found by its id
\* with every submitted field equal to what was submitted, until it is
\* updated or deleted.
C2_FieldsEqualInput ==
  \A m \in made :
    /\ find(file, m.id) # NoRecord
    /\ \A f \in BodyFields : find(file, m.id)[f] = m.body[f]

\* out is the string in without its leading and trailing whitespace
TrimmedOf(out, in) ==
  /\ out.t = "str" /\ in.t = "str"
  /\ out.s # <<>> =>
       Head(out.s) \notin Whitespace /\ out.s[Len(out.s)] \notin Whitespace
  /\ \E i, j \in 0..Len(in.s) :
       /\ i + Len(out.s) + j = Len(in.s)
       /\ SubSeq(in.s, i + 1, i + Len(out.s)) = out.s
       /\ \A k \in 1..Len(in.s) :
            (k <= i \/ k > i + Len(out.s)) => in.s[k] \in Whitespace
\* out is the number that in denotes, in being "0", "1", 0 or 1
IntegerOf(out, in) ==
  /\ out.t = "num"
  /\ out.n \in {0, 1}
  /\ IF in.t = "num" THEN out = in ELSE in.s = <<DigitChars[out.n + 1]>>

\* C2 (amended): a valid POST with an image answers 201 with a generated id;
\* while no write has replaced a newer document and the record has not been
\* updated or deleted, the record found by that id holds the trimmed text
\* fields, createdDate as submitted, status parsed to an integer and the URL
\* of the stored upload.
C2_RoundTrip ==
  /\ \A r \in Slots :
       (req[r].op = "post" /\ req[r].valid /\ req[r].hasFile /\ Done(r))
         => /\ req[r].status = 201
            /\ req[r].resp.id = req[r].id
            /\ req[r].id \in 1..(nextId - 1)
  /\ ~raced =>
       \A m \in made :
         LET rec == find(file, m.id)
         IN /\ rec.id = m.id
            /\ \A f \in TextFields : TrimmedOf(rec[f], m.body[f])
            /\ rec.createdDate = m.body.createdDate
            /\ IntegerOf(rec.status, m.body.status)
            /\ rec.image = <<HostPrefix, m.fname>>

C2_Witness ==
  /\ ~raced
  /\ \E m \in made :
       /\ m.body.title = Str(<<" ", "a", " ">>)
       /\ find(file, m.id).title = TextA
  /\ \E r \in Slots : req[r].op = "post" /\ Done(r) /\ req[r].status = 201
  /\ Len(file) >= 2

UpdateWrote(r) == req[r].pc = "update_write" /\ req'[r].pc = "done"

\* what C3 says of the store update of PUT request r
UpdateFrame(r) ==
  LET id == req[r].id
  IN IF req[r].hasFile
     THEN /\ basename(find(file, id).image) \notin uploads'
          /\ find(file', id).image = ImageUrl(req[r].fname)
     ELSE /\ ~req[r].unlinked
          /\ uploads' = uploads
          /\ find(file', id).image = find(file, id).image

\* C3 (as claimed): a successful PUT with a new image leaves the previous
\* asset file removed and the record pointing at the new file; without an
\* image it leaves the directory alone and the record's image as it was.
C3_UpdateFrameAlways ==
  [][\A r \in Slots : UpdateWrote(r) => UpdateFrame(r)]_vars

\* C3 (amended): the same, for a PUT during which no other request wrote the
\* document between the handler's lookup and its store update.
C3_UpdateFrame ==
  [][\A r \in Slots :
       (UpdateWrote(r) /\ req[r].lookVer = ver) => UpdateFrame(r)]_vars

C3_Witness ==
  /\ \E r \in Slots :
       /\ req[r].op = "put" /\ Done(r) /\ req[r].status = 200
       /\ req[r].wrote /\ req[r].hasFile /\ req[r].unlinked
       /\ req[r].lookVer + 1 = req[r].writeVer
       /\ find(file, req[r].id).image = ImageUrl(req[r].fname)
  /\ \E r \in Slots :
       /\ req[r].op = "put" /\ Done(r) /\ req[r].status = 200
       /\ req[r].wrote /\ ~req[r].hasFile
       /\ req[r].lookVer + 1 = req[r].writeVer

\* what C4 says of the records whose DELETE answered 200
DeletedStayDeleted ==
  /\ \A d \in deleted :
       /\ d.id \notin Ids(file)
       /\ basename(d.image) \notin uploads
  /\ \A r \in Slots :
       (req[r].op = "delete" /\ req[r].afterDel /\ Done(r))
         => /\ req[r].status = 404
            /\ ~req[r].wrote
            /\ ~req[r].unlinked

\* C4 (as claimed): after a successful DELETE the record is in no later
\* listing or lookup, its asset file is gone, and a further DELETE of the id
\* answers 404 and changes nothing.
C4_DeletedForever == DeletedStayDeleted

\* C4 (amended): the same, while no write has replaced a document newer than
\* the writer's first read of it.
C4_Delete == ~raced => DeletedStayDeleted

C4_Witness ==
  /\ ~raced
  /\ deleted # {}
  /\ \E r \in Slots :
       /\ req[r].op = "delete" /\ req[r].afterDel /\ Done(r)
       /\ req[r].status = 404

\* ---- GET /artworks as the claim states it
\* the page or limit a query gives: its number, or the default when absent
Given(v, default) == IF v = Undef THEN default ELSE ParseInt(v).n
Restricted(doc, status) ==
  IF status = Undef THEN doc ELSE filter(doc, status)
Claimed(doc, q) ==
  LET page == Given(q.page, 1)
      limit == Given(q.limit, 10)
      all == Restricted(doc, q.status)
  IN [data |-> SubSeq(all, Max((page - 1) * limit + 1, 1),
                      Min(page * limit, Len(all))),
      total |-> Len(all),
      pages |-> ceil(Len(all), limit)]
Listed == list.outLimit # 0
ListedAsClaimed ==
  /\ list.data = Claimed(file, list).data
  /\ list.total = Claimed(file, list).total
  /\ list.pages = Claimed(file, list).pages
Numeric(v) == v = Undef \/ ParseInt(v).t = "num"
Positive(v) == v = Undef \/ (ParseInt(v).t = "num" /\ ParseInt(v).n >= 1)

\* C5 (as claimed): for every query with numeric page and limit, the
\* response is the claimed slice of the collection restricted to the given
\* status, with the claimed total and pages.
C5_EveryQuery ==
  (Listed /\ Numeric(list.page) /\ Numeric(list.limit)
     /\ ParseInt(list.limit) # Num(0))
    => ListedAsClaimed

\* C5 (amended): for every query whose page and limit are each absent or a
\* positive integer and whose status is absent, "0" or "1", the response is
\* elements (page-1)*limit+1 .. page*limit of the collection restricted to
\* that status, total its size and pages = ceil(total/limit); page 2, limit
\* 5 on 12 records gives records 6 to 10 and 3 pages.
C5_Pagination ==
  /\ (Listed /\ Positive(list.page) /\ Positive(list.limit)
        /\ list.status \in {Undef, OneChar("0"), OneChar("1")})
       => ListedAsClaimed
  /\ (Listed /\ Len(file) = 12 /\ list.page = OneChar("2")
        /\ list.limit = OneChar("5") /\ list.status = Undef)
       => /\ list.data = SubSeq(file, 6, 10)
          /\ list.pages = 3

C5_Witness ==
  /\ Len(file) = 12
  /\ list.page = OneChar("2") /\ list.limit = OneChar("5")
  /\ list.status = OneChar("1")
  /\ list.total = 6
  /\ Len(list.data) = 1
  /\ list.pages = 2

\* what C6 says of the stored records
ImagesPresent ==
  \A i \in 1..Len(file) : basename(file[i].image) \in uploads

\* C6 (as claimed): whenever no request is in flight, every record's image
\* names a file present in the uploads directory.
C6_ImagesPresentWhenQuiet == Quiescent => ImagesPresent

\* C6 (amended): whenever no request is in flight and no write has replaced
\* a document newer than the writer's first read of it, every record's image
\* names a file present in the uploads directory.
C6_ImagesPresent == (Quiescent /\ ~raced) => ImagesPresent

C6_Witness ==
  /\ Quiescent /\ ~raced
  /\ Len(file) >= 1
  /\ \E r \in Slots :
       /\ req[r].op = "put" /\ req[r].hasFile /\ req[r].wrote
       /\ find(file, req[r].id).image = ImageUrl(req[r].fname)

\* C7: a valid PUT whose lookup finds no record answers 404, writes nothing
\* to the document, and its uploaded file is gone when it answers.
C7_PutNotFound ==
  \A r \in Slots :
    (req[r].op = "put" /\ req[r].valid /\ Done(r) /\ ~req[r].found)
      => /\ req[r].status = 404
         /\ ~req[r].wrote
         /\ req[r].hasFile => req[r].fname \notin uploads

C7_Witness ==
  \E r \in Slots :
    /\ req[r].op = "put" /\ req[r].valid /\ Done(r) /\ ~req[r].found
    /\ req[r].hasFile /\ req[r].unlinked /\ req[r].status = 404
    /\ Len(file) >= 1

\* the mutation of request q is not in the document
Absent(q) ==
  CASE q.op = "post" -> q.id \notin Ids(file)
    [] q.op = "put" -> find(file, q.id) = q.prev
    [] q.op = "delete" -> find(file, q.id) = q.prev
    [] OTHER -> FALSE
\* the mutation of request q is in the document
Present(q) ==
  CASE q.op = "post" -> find(file, q.id) = q.resp
    [] q.op = "put" -> find(file, q.id) = q.resp
    [] q.op = "delete" -> q.id \notin Ids(file)
    [] OTHER -> FALSE
\* q and r read the same document, q wrote, then r wrote last
WroteOver(q, r) ==
  /\ q.pc = "done" /\ r.pc = "done" /\ q.wrote /\ r.wrote
  /\ q.readVer = r.readVer
  /\ q.writeVer < r.writeVer
  /\ r.writeVer = ver
  /\ q.id # r.id

\* C8: when two mutations of different records read the same document and
\* then both write it, both answer with success and the document holds the
\* later writer's mutation without the earlier writer's.
C8_LostUpdate ==
  \A a, b \in Slots :
    WroteOver(req[a], req[b])
      => /\ req[a].status \in {200, 201}
         /\ req[b].status \in {200, 201}
         /\ Absent(req[a])
         /\ Present(req[b])

C8_Witness ==
  \E a, b \in Slots :
    /\ WroteOver(req[a], req[b])
    /\ req[a].op = "post" /\ req[b].op = "post"
    /\ req[a].status = 201 /\ req[b].status = 201
    /\ req[a].id \notin Ids(file)

\* C9 (as claimed): every PUT with valid fields answers with the updated
\* record or with 404.
C9_UpdatedOrNotFound ==
  \A r \in Slots :
    (req[r].op = "put" /\ req[r].valid /\ Done(r))
      => \/ req[r].status = 404
         \/ req[r].status = 200 /\ req[r].resp # NoRecord

\* C10: a create writes its record with its upload already stored; an update
\* with a new file writes its record with the old asset file already
\* deleted; a delete unlinks the asset file after it has written the
\* document without the record.
C10_Order ==
  [][\A r \in Slots :
       /\ (req[r].pc = "create_write" /\ req'[r].pc = "done")
            => /\ req[r].fname \in uploads
               /\ find(file', req[r].id).image = ImageUrl(req[r].fname)
       /\ (UpdateWrote(r) /\ req[r].hasFile)
            => basename(req[r].existing.image) \notin uploads
       /\ (req[r].pc = "delete_unlink" /\ req'[r].pc = "done")
            => /\ req[r].wrote
               /\ req[r].writeVer <= ver
       /\ (req[r].pc = "delete_write" /\ req'[r].pc # "delete_write")
            => /\ ~req[r].unlinked
               /\ req[r].id \notin Ids(file')]_vars

C10_Witness ==
  /\ \E r \in Slots :
       /\ req[r].op = "put" /\ Done(r) /\ req[r].hasFile /\ req[r].wrote
  /\ \E r \in Slots :
       /\ req[r].op = "delete" /\ Done(r) /\ req[r].status = 200
       /\ req[r].unlinked

====
